---- MODULE Spec2Model ----
(***************************************************************************)
(* Model of the book sales analysis pipeline: src/src/etl.py (field        *)
(* normalisation), src/pipeline.py (process_dataset: normalise, dedup,     *)
(* join) and src/src/analysis.py (clustering of identity profiles, best    *)
(* buyer, top-5 days, author sets).                                        *)
(*                                                                         *)
(* Each group of functions has its own specification over the shared       *)
(* variables; the variables of the other groups stay at their idle value.  *)
(*   SpecCluster  find_real_user and best_buyer over one merged table      *)
(*   SpecReverse  find_real_user over a profile sequence and its reverse   *)
(*   SpecPrices   clean_prices on one price string                         *)
(*   SpecOrders   process_dataset, over the cells of the order rows        *)
(*   SpecMerge    process_dataset, over the users and books tables         *)
(*   SpecTop5     get_top5_days on a daily revenue table                   *)
(*   SpecAuthors  count_unique_author_sets on a table of two rows          *)
(*   SpecDaily    compute_daily_revenue on a table and a reordering of it  *)
(* Money is counted in cents (integers), except in SpecDaily, which sums   *)
(* binary floating-point amounts; null/NaN/NaT is the value Null.          *)
(***************************************************************************)
EXTENDS Integers, Sequences, FiniteSets, TLC

VARIABLES
    pc,                 \* position in the function being executed
    df,                 \* the table (sequence of rows) the function was called with
    idx,                \* 1-based position of the loop over the rows
    clusters,           \* find_real_user: list of {"rep", "items"}
    unique_users,       \* find_real_user: returned count (Null before the return)
    bb_clusters,        \* best_buyer: list of {"rep", "user_ids", "spend"}
    best_buyer_aliases, \* best_buyer: returned list (Null before the return)
    fwd_count,          \* SpecReverse: count returned for the sequence as given
    cell,               \* clean_prices: the price string of one cell of the series
    cleaned,            \* clean_prices: the cell of the returned series
    orders_file,        \* process_dataset: orders.parquet (missing, or its rows)
    users_file,         \* process_dataset: users.csv (missing, or its rows)
    books_file,         \* process_dataset: books.yaml (missing, or its records)
    df_orders,          \* process_dataset: the orders table
    df_books,           \* process_dataset: the books table
    df_users,           \* process_dataset: the users table
    df_orders_full,     \* process_dataset: the merged table
    results,            \* process_dataset: the analysis bundle
    df_daily,           \* get_top5_days: the daily revenue table (date, revenue)
    top5,               \* get_top5_days: the returned table (rank, date, revenue)
    author_col,         \* count_unique_author_sets: the author column of the table
    sets_,              \* count_unique_author_sets: the normalised author sets
    unique_author_sets, \* count_unique_author_sets: the returned count
    records,            \* compute_daily_revenue: the merged table (date, paid_price)
    reordering,         \* SpecDaily: the order in which the rows are given again
    daily,              \* compute_daily_revenue: the table returned for records
    daily_reordered     \* SpecDaily: the table returned for the reordered rows

clusterVars == <<df, idx, clusters, unique_users, bb_clusters, best_buyer_aliases,
                 fwd_count>>
priceVars   == <<cell, cleaned>>
fileVars    == <<orders_file, users_file, books_file>>
datasetVars == <<df_orders, df_books, df_users, df_orders_full, results>>

topVars     == <<df_daily, top5>>
authorVars  == <<author_col, sets_, unique_author_sets>>
dailyVars   == <<records, reordering, daily, daily_reordered>>

vars == <<pc, clusterVars, priceVars, fileVars, datasetVars, topVars, authorVars,
          dailyVars>>

notClusterVars == <<priceVars, fileVars, datasetVars, topVars, authorVars, dailyVars>>
notPriceVars   == <<clusterVars, fileVars, datasetVars, topVars, authorVars, dailyVars>>
notDatasetVars == <<clusterVars, priceVars, topVars, authorVars, dailyVars>>
notTopVars     == <<clusterVars, priceVars, fileVars, datasetVars, authorVars, dailyVars>>
notAuthorVars  == <<clusterVars, priceVars, fileVars, datasetVars, topVars, dailyVars>>
notDailyVars   == <<clusterVars, priceVars, fileVars, datasetVars, topVars, authorVars>>

\* a missing object or string cell (None, or NaN in a column of strings)
Null == "null"

\* an input file: missing, or holding rows
Missing == [exists |-> FALSE, rows |-> <<>>]
File(rows) == [exists |-> TRUE, rows |-> rows]

\* cells of a float64 column: NaN, or a number
NaN == [isna |-> TRUE, val |-> 0]
Num(v) == [isna |-> FALSE, val |-> v]

(***************************************************************************)
(* Bounds of the model.                                                    *)
(***************************************************************************)
MaxRows == 3
MaxPriceLen == 4
MaxOrders == 2
MaxUsers == 2
MaxBooks == 2
MaxDays == 6
MaxAuthorLen == 3
MaxRecords == 3
MantissaBits == 3

(***************************************************************************)
(* Idle values of the variables a specification does not use.              *)
(***************************************************************************)
ClusterIdle ==
    /\ df = <<>>
    /\ idx = 1
    /\ clusters = <<>>
    /\ unique_users = Null
    /\ bb_clusters = <<>>
    /\ best_buyer_aliases = Null
    /\ fwd_count = Null

PricesIdle ==
    /\ cell = <<>>
    /\ cleaned = NaN

TopIdle ==
    /\ df_daily = <<>>
    /\ top5 = <<>>

AuthorsIdle ==
    /\ author_col = <<>>
    /\ sets_ = <<>>
    /\ unique_author_sets = 0

DailyIdle ==
    /\ records = <<>>
    /\ reordering = <<>>
    /\ daily = <<>>
    /\ daily_reordered = <<>>

DatasetIdle ==
    /\ orders_file = Missing
    /\ users_file = Missing
    /\ books_file = Missing
    /\ df_orders = <<>>
    /\ df_books = <<>>
    /\ df_users = <<>>
    /\ df_orders_full = <<>>
    /\ results = Null

(***************************************************************************)
(* Generic helpers.                                                        *)
(***************************************************************************)
SeqsUpTo(S, n) == UNION {[1..k -> S] : k \in 0..n}

Reverse(s) == [k \in 1..Len(s) |-> s[Len(s) + 1 - k]]

MinLen(a, b) == IF Len(a) <= Len(b) THEN Len(a) ELSE Len(b)

RECURSIVE SortedList(_)
\* sorted(set): ascending list of the members of a set of integers
SortedList(S) ==
    IF S = {} THEN <<>>
    ELSE LET m == CHOOSE x \in S : \A y \in S : x <= y
         IN  <<m>> \o SortedList(S \ {m})

(***************************************************************************)
(* Identity profiles: analysis.py, USER_KEY_FIELDS and the profile tuples. *)
(***************************************************************************)
USER_KEY_FIELDS == <<"name", "email", "phone", "address">>

\* values of the identity columns after fillna(""): "" is a missing cell
Names     == {"A", "B"}
Emails    == {"e1", "e2"}
Phones    == {"", "p1"}
Addresses == {"", "a1"}

AllProfiles ==
    {<<n, e, p, a>> : n \in Names, e \in Emails, p \in Phones, a \in Addresses}

\* the profiles of the merged tables of SpecCluster: name and address vary
TableProfiles == {<<n, "e1", "p1", a>> : n \in Names, a \in Addresses}

UserIds == {1, 2}
Spends  == {50, 100}

Row == [user_id : UserIds, prof : TableProfiles, paid_price : Spends]

RECURSIVE ZipDiff(_, _, _)
\* sum(a != b for a, b in zip(p, rep)), scanning the zipped pairs from k on
ZipDiff(p, rep, k) ==
    IF k > MinLen(p, rep) THEN 0
    ELSE (IF p[k] # rep[k] THEN 1 ELSE 0) + ZipDiff(p, rep, k + 1)

DiffOffByOne(p, rep) == ZipDiff(p, rep, 2)

Diff(p, rep) == ZipDiff(p, rep, 1)

RECURSIVE FirstMatch(_, _, _)
\* the inner "for group in clusters" loop: index of the first cluster whose
\* representative is within one field of p, 0 when the loop ends unmatched
FirstMatch(cls, p, k) ==
    IF k > Len(cls) THEN 0
    ELSE IF Diff(p, cls[k].rep) <= 1 THEN k
    ELSE FirstMatch(cls, p, k + 1)

RECURSIVE LastMatch(_, _, _)
LastMatch(cls, p, k) ==
    IF k > Len(cls) THEN 0
    ELSE LET later == LastMatch(cls, p, k + 1)
         IN  IF later # 0 THEN later
             ELSE IF Diff(p, cls[k].rep) <= 1 THEN k ELSE 0

FindRealUserStepLastFit(cls, p) ==
    LET k == LastMatch(cls, p, 1)
    IN  IF k # 0
        THEN [cls EXCEPT ![k].items = Append(@, p)]
        ELSE Append(cls, [rep |-> p, items |-> <<p>>])

\* one iteration of "for p in profiles" of find_real_user
FindRealUserStep(cls, p) ==
    LET k == FirstMatch(cls, p, 1)
    IN  IF k # 0
        THEN [cls EXCEPT ![k].items = Append(@, p)]
        ELSE Append(cls, [rep |-> p, items |-> <<p>>])

\* one iteration of "for uid, prof, spend in profiles" of best_buyer
BestBuyerStep(cls, uid, prof, spend) ==
    LET k == FirstMatch(cls, prof, 1)
    IN  IF k # 0
        THEN [cls EXCEPT ![k].user_ids = @ \cup {uid}, ![k].spend = @ + spend]
        ELSE Append(cls, [rep |-> prof, user_ids |-> {uid}, spend |-> spend])

RECURSIVE MaxBySpend(_, _, _)
\* max(clusters, key=spend): index of the first cluster with the largest key
MaxBySpend(cls, k, best) ==
    IF k > Len(cls) THEN best
    ELSE IF cls[k].spend > cls[best].spend THEN MaxBySpend(cls, k + 1, k)
    ELSE MaxBySpend(cls, k + 1, best)

(***************************************************************************)
(* SpecCluster: analyze() calling find_real_user, then best_buyer, on one  *)
(* merged table.                                                           *)
(***************************************************************************)
InitCluster ==
    /\ df \in SeqsUpTo(Row, MaxRows)
    /\ pc = "find_real_user"
    /\ idx = 1
    /\ clusters = <<>>
    /\ unique_users = Null
    /\ bb_clusters = <<>>
    /\ best_buyer_aliases = Null
    /\ fwd_count = Null
    /\ PricesIdle
    /\ DatasetIdle
    /\ DailyIdle
    /\ TopIdle
    /\ AuthorsIdle

FindRealUserLoop ==
    /\ pc = "find_real_user"
    /\ idx <= Len(df)
    /\ clusters' = FindRealUserStep(clusters, df[idx].prof)
    /\ idx' = idx + 1
    /\ UNCHANGED <<pc, df, unique_users, bb_clusters, best_buyer_aliases, fwd_count>>
    /\ UNCHANGED notClusterVars

FindRealUserReturn ==
    /\ pc = "find_real_user"
    /\ idx > Len(df)
    /\ unique_users' = Len(clusters)
    /\ pc' = "best_buyer_profiles"
    /\ UNCHANGED <<df, idx, clusters, bb_clusters, best_buyer_aliases, fwd_count>>
    /\ UNCHANGED notClusterVars

\* profiles = list(df2.apply(lambda r: (...), axis=1)) and the loop header.
\* DataFrame.apply(axis=1) over a frame without rows returns the empty frame
\* itself, not a Series of tuples; list() of a frame is its column labels, and
\* "for uid, prof, spend in profiles" cannot unpack the label "user_id" into
\* three names: ValueError, before "if not clusters" is reached.
BestBuyerProfiles ==
    /\ pc = "best_buyer_profiles"
    /\ IF Len(df) = 0
       THEN pc' = "raised"
       ELSE pc' = "best_buyer"
    /\ idx' = 1
    /\ UNCHANGED <<df, clusters, unique_users, bb_clusters, best_buyer_aliases, fwd_count>>
    /\ UNCHANGED notClusterVars

BestBuyerLoop ==
    /\ pc = "best_buyer"
    /\ idx <= Len(df)
    /\ bb_clusters' = BestBuyerStep(bb_clusters, df[idx].user_id, df[idx].prof,
                                    df[idx].paid_price)
    /\ idx' = idx + 1
    /\ UNCHANGED <<pc, df, clusters, unique_users, best_buyer_aliases, fwd_count>>
    /\ UNCHANGED notClusterVars

BestBuyerReturn ==
    /\ pc = "best_buyer"
    /\ idx > Len(df)
    /\ best_buyer_aliases' =
          IF Len(bb_clusters) = 0 THEN <<>>
          ELSE SortedList(bb_clusters[MaxBySpend(bb_clusters, 1, 1)].user_ids)
    /\ pc' = "done"
    /\ UNCHANGED <<df, idx, clusters, unique_users, bb_clusters, fwd_count>>
    /\ UNCHANGED notClusterVars

NextCluster ==
    \/ FindRealUserLoop
    \/ FindRealUserReturn
    \/ BestBuyerProfiles
    \/ BestBuyerLoop
    \/ BestBuyerReturn

SpecCluster == InitCluster /\ [][NextCluster]_vars

(***************************************************************************)
(* SpecReverse: find_real_user called on a sequence of profiles and then   *)
(* on the same profiles in reverse order.                                  *)
(***************************************************************************)
ProfileRow == [prof : AllProfiles]

InitReverse ==
    /\ df \in SeqsUpTo(ProfileRow, MaxRows)
    /\ pc = "forward"
    /\ idx = 1
    /\ clusters = <<>>
    /\ unique_users = Null
    /\ bb_clusters = <<>>
    /\ best_buyer_aliases = Null
    /\ fwd_count = Null
    /\ PricesIdle
    /\ DatasetIdle
    /\ DailyIdle
    /\ TopIdle
    /\ AuthorsIdle

ForwardLoop ==
    /\ pc = "forward"
    /\ idx <= Len(df)
    /\ clusters' = FindRealUserStep(clusters, df[idx].prof)
    /\ idx' = idx + 1
    /\ UNCHANGED <<pc, df, unique_users, bb_clusters, best_buyer_aliases, fwd_count>>
    /\ UNCHANGED notClusterVars

\* the first call returns len(clusters); the second call gets the rows reversed
ForwardReturn ==
    /\ pc = "forward"
    /\ idx > Len(df)
    /\ fwd_count' = Len(clusters)
    /\ df' = Reverse(df)
    /\ clusters' = <<>>
    /\ idx' = 1
    /\ pc' = "reversed"
    /\ UNCHANGED <<unique_users, bb_clusters, best_buyer_aliases>>
    /\ UNCHANGED notClusterVars

ReversedLoop ==
    /\ pc = "reversed"
    /\ idx <= Len(df)
    /\ clusters' = FindRealUserStep(clusters, df[idx].prof)
    /\ idx' = idx + 1
    /\ UNCHANGED <<pc, df, unique_users, bb_clusters, best_buyer_aliases, fwd_count>>
    /\ UNCHANGED notClusterVars

ReversedReturn ==
    /\ pc = "reversed"
    /\ idx > Len(df)
    /\ unique_users' = Len(clusters)
    /\ pc' = "compared"
    /\ UNCHANGED <<df, idx, clusters, bb_clusters, best_buyer_aliases, fwd_count>>
    /\ UNCHANGED notClusterVars

NextReverse ==
    \/ ForwardLoop
    \/ ForwardReturn
    \/ ReversedLoop
    \/ ReversedReturn

SpecReverse == InitReverse /\ [][NextReverse]_vars

(***************************************************************************)
(* Properties of the clustering (C1, C2, C7).                              *)
(***************************************************************************)
\* number of field positions in which two profiles differ
FieldsDiffering(p, q) == Cardinality({f \in 1..Len(USER_KEY_FIELDS) : p[f] # q[f]})

\* the first representative, in creation order, within one field of p (0: none)
FirstFit(reps, p) ==
    LET near == {k \in 1..Len(reps) : FieldsDiffering(p, reps[k]) <= 1}
    IN  IF near = {} THEN 0 ELSE CHOOSE k \in near : \A m \in near : k <= m

MinOf(S) == CHOOSE x \in S : \A y \in S : x <= y

RECURSIVE SumPaid(_, _)
SumPaid(rows, S) ==
    IF S = {} THEN 0
    ELSE LET j == MinOf(S) IN rows[j].paid_price + SumPaid(rows, S \ {j})

\* rows consumed so far by each loop
FruProcessed == IF pc = "find_real_user" THEN idx - 1 ELSE Len(df)
BbProcessed ==
    IF pc = "best_buyer" THEN idx - 1 ELSE IF pc = "done" THEN Len(df) ELSE 0

FruReps == [k \in 1..Len(clusters) |-> clusters[k].rep]
BbReps  == [k \in 1..Len(bb_clusters) |-> bb_clusters[k].rep]

\* the processed rows that the first-fit rule gives to cluster k
MembersOf(reps, n, k) == {j \in 1..n : FirstFit(reps, df[j].prof) = k}

FirstFitPartition(reps, n) ==
    /\ \A j \in 1..n : FirstFit(reps, df[j].prof) # 0
    /\ \A k \in 1..Len(reps) :
          /\ MembersOf(reps, n, k) # {}
          /\ reps[k] = df[MinOf(MembersOf(reps, n, k))].prof
          /\ \A j \in MembersOf(reps, n, k) : FieldsDiffering(df[j].prof, reps[k]) <= 1
    /\ \A k, l \in 1..Len(reps) :
          k < l => /\ MinOf(MembersOf(reps, n, k)) < MinOf(MembersOf(reps, n, l))
                   /\ FieldsDiffering(reps[k], reps[l]) > 1

FruItemsOk ==
    \A k \in 1..Len(clusters) :
        /\ Len(clusters[k].items) = Cardinality(MembersOf(FruReps, FruProcessed, k))
        /\ clusters[k].items[1] = clusters[k].rep
        /\ clusters[k].items =
              SelectSeq([j \in 1..FruProcessed |-> df[j].prof],
                        LAMBDA p : FirstFit(FruReps, p) = k)

BbPayloadOk ==
    \A k \in 1..Len(bb_clusters) :
        /\ bb_clusters[k].user_ids =
              {df[j].user_id : j \in MembersOf(BbReps, BbProcessed, k)}
        /\ bb_clusters[k].spend = SumPaid(df, MembersOf(BbReps, BbProcessed, k))

\* C1: in both loops, after every step, the clusters are the first-fit
\* partition of the rows processed so far: every row is in the first cluster
\* (creation order) whose representative is within one field of it, a cluster
\* is founded exactly by a row that no earlier representative is within one
\* field of, the representative is the cluster's first member and every
\* member is within one field of it.
C1_FirstFitClusters ==
    pc \in {"find_real_user", "best_buyer_profiles", "best_buyer", "done", "raised"} =>
        /\ FirstFitPartition(FruReps, FruProcessed)
        /\ FruItemsOk
        /\ FirstFitPartition(BbReps, BbProcessed)
        /\ BbPayloadOk

\* a finished run in which a row within one field of two representatives went
\* to the earlier one, and a later row founded the second cluster
C1_Witness ==
    /\ pc = "done"
    /\ Len(bb_clusters) = 2
    /\ Len(clusters) = 2
    /\ \E j \in 1..Len(df) :
          /\ FieldsDiffering(df[j].prof, BbReps[1]) = 1
          /\ FieldsDiffering(df[j].prof, BbReps[2]) = 1
          /\ df[j].user_id \in bb_clusters[1].user_ids
          /\ Len(clusters[1].items) >= 2

\* the result the claim describes: the ascending user_ids of the first-created
\* cluster of maximal aggregate spend, the empty list for a table without rows
ClaimedBestBuyer ==
    IF Len(df) = 0 THEN <<>>
    ELSE LET n == Len(bb_clusters)
             spendOf(k) == SumPaid(df, MembersOf(BbReps, Len(df), k))
             top == {k \in 1..n : \A m \in 1..n : spendOf(m) <= spendOf(k)}
             ids == {df[j].user_id : j \in MembersOf(BbReps, Len(df), MinOf(top))}
         IN  CHOOSE s \in [1..Cardinality(ids) -> ids] :
                 /\ {s[i] : i \in 1..Len(s)} = ids
                 /\ \A a, b \in 1..Len(s) : a < b => s[a] < s[b]

\* C2: best_buyer returns the ascending user_ids of the cluster of maximal
\* aggregate spend (the first created among equals), and the empty list for a
\* table without order rows.
C2_BestBuyerResult ==
    pc \in {"done", "raised"} =>
        /\ pc = "done"
        /\ best_buyer_aliases = ClaimedBestBuyer

\* C2 on tables with at least one row, where the code agrees with the claim
C2_NonEmptyTables ==
    (pc \in {"done", "raised"} /\ Len(df) > 0) =>
        /\ pc = "done"
        /\ best_buyer_aliases = ClaimedBestBuyer

\* C7: the cluster count depends on the order of the profiles: for three
\* profiles of which the first is within one field of the other two, which
\* are two or more fields apart, the sequence gives one cluster and its
\* reverse gives two.
C7_OrderSensitive ==
    (/\ pc = "compared"
     /\ Len(df) = 3
     /\ FieldsDiffering(df[3].prof, df[2].prof) <= 1
     /\ FieldsDiffering(df[3].prof, df[1].prof) <= 1
     /\ FieldsDiffering(df[2].prof, df[1].prof) >= 2)
        => (fwd_count = 1 /\ unique_users = 2)

\* both calls have returned and the counts differ
C7_Witness ==
    /\ pc = "compared"
    /\ fwd_count = 1
    /\ unique_users = 2

(***************************************************************************)
(* Price strings: etl.py, clean_prices.  A string is a sequence of         *)
(* one-character strings; a cleaned price is a number of cents or NaN.     *)
(***************************************************************************)
DigitChars == {"0", "1", "2", "3", "4", "5", "6", "7", "8", "9"}

DigitVal(c) ==
    CASE c = "0" -> 0 [] c = "1" -> 1 [] c = "2" -> 2 [] c = "3" -> 3
      [] c = "4" -> 4 [] c = "5" -> 5 [] c = "6" -> 6 [] c = "7" -> 7
      [] c = "8" -> 8 [] c = "9" -> 9

LetterChars == {"e", "u", "r", "s", "d", "n", "a", "o", "l",
                "E", "U", "R", "S", "D", "N", "A", "O", "L"}

\* str.lower() on the characters of the model
LowerChar(c) ==
    CASE c = "E" -> "e" [] c = "U" -> "u" [] c = "R" -> "r" [] c = "S" -> "s"
      [] c = "D" -> "d" [] c = "N" -> "n" [] c = "A" -> "a" [] c = "O" -> "o"
      [] c = "L" -> "l" [] OTHER -> c

Lower(str) == [k \in 1..Len(str) |-> LowerChar(str[k])]

\* \w of the regular expressions: letters, digits (no underscore in the model)
IsWordChar(c) == c \in DigitChars \cup LetterChars

RECURSIVE Strip(_)
\* str.strip(): blanks removed at both ends
Strip(str) ==
    IF str = <<>> THEN <<>>
    ELSE IF Head(str) = " " THEN Strip(Tail(str))
    ELSE IF str[Len(str)] = " " THEN Strip(SubSeq(str, 1, Len(str) - 1))
    ELSE str

Contains(str, sub) ==
    \E k \in 1..(Len(str) - Len(sub) + 1) : SubSeq(str, k, k + Len(sub) - 1) = sub

HasChar(str, c) == \E k \in 1..Len(str) : str[k] = c

\* s.str.contains(r"<euro>|eur", case=False)
IsEur(str) == HasChar(str, "<euro>") \/ Contains(Lower(str), <<"e", "u", "r">>)

RECURSIVE FindAllDigits(_, _)
\* re.findall(r"\d+", raw): the maximal runs of digits, left to right;
\* cur is the run being read
FindAllDigits(str, cur) ==
    IF str = <<>> THEN (IF cur = <<>> THEN <<>> ELSE <<cur>>)
    ELSE IF Head(str) \in DigitChars THEN FindAllDigits(Tail(str), Append(cur, Head(str)))
    ELSE (IF cur = <<>> THEN <<>> ELSE <<cur>>) \o FindAllDigits(Tail(str), <<>>)

RECURSIVE RemoveChars(_, _)
\* re.sub of a character class: the characters of Drop removed
RemoveChars(str, Drop) ==
    IF str = <<>> THEN <<>>
    ELSE IF Head(str) \in Drop THEN RemoveChars(Tail(str), Drop)
    ELSE <<Head(str)>> \o RemoveChars(Tail(str), Drop)

RECURSIVE KeepChars(_, _)
\* re.sub(r"[^...]", "", raw): only the characters of Keep stay
KeepChars(str, Keep) ==
    IF str = <<>> THEN <<>>
    ELSE IF Head(str) \in Keep THEN <<Head(str)>> \o KeepChars(Tail(str), Keep)
    ELSE KeepChars(Tail(str), Keep)

RECURSIVE RemoveWord(_, _, _)
\* re.sub(r"\bWORD\b", "", raw, flags=re.IGNORECASE), scanning from position k
RemoveWord(str, word, k) ==
    IF k > Len(str) THEN <<>>
    ELSE IF /\ k + Len(word) - 1 <= Len(str)
            /\ Lower(SubSeq(str, k, k + Len(word) - 1)) = word
            /\ (k = 1 \/ ~IsWordChar(str[k - 1]))
            /\ (k + Len(word) > Len(str) \/ ~IsWordChar(str[k + Len(word)]))
         THEN RemoveWord(str, word, k + Len(word))
         ELSE <<str[k]>> \o RemoveWord(str, word, k + 1)

ReplaceComma(str) == [k \in 1..Len(str) |-> IF str[k] = "," THEN "." ELSE str[k]]

RECURSIVE RStripDots(_)
\* raw.rstrip(".")
RStripDots(str) ==
    IF str # <<>> /\ str[Len(str)] = "." THEN RStripDots(SubSeq(str, 1, Len(str) - 1))
    ELSE str

RECURSIVE DigitsValue(_)
DigitsValue(ds) ==
    IF ds = <<>> THEN 0
    ELSE 10 * DigitsValue(SubSeq(ds, 1, Len(ds) - 1)) + DigitVal(ds[Len(ds)])

RECURSIVE Pow10(_)
Pow10(n) == IF n = 0 THEN 1 ELSE 10 * Pow10(n - 1)

\* float(raw) on a string of digits, periods and minus signs: an optional
\* sign, digits with at most one period and at least one digit; anything
\* else raises ValueError (ok is FALSE).  The value is the fraction num / den.
ParseFloat(str) ==
    LET neg  == str # <<>> /\ Head(str) = "-"
        body == IF neg THEN Tail(str) ELSE str
        dots == {k \in 1..Len(body) : body[k] = "."}
        ok   == /\ \A k \in 1..Len(body) : body[k] \in DigitChars \cup {"."}
                /\ Cardinality(dots) <= 1
                /\ \E k \in 1..Len(body) : body[k] \in DigitChars
        ip   == IF dots = {} THEN body
                ELSE SubSeq(body, 1, (CHOOSE k \in dots : TRUE) - 1)
        fp   == IF dots = {} THEN <<>>
                ELSE SubSeq(body, (CHOOSE k \in dots : TRUE) + 1, Len(body))
        mag  == DigitsValue(ip) * Pow10(Len(fp)) + DigitsValue(fp)
    IN  IF ~ok THEN [ok |-> FALSE, num |-> 0, den |-> 1]
        ELSE [ok |-> TRUE, num |-> IF neg THEN 0 - mag ELSE mag, den |-> Pow10(Len(fp))]

\* round to the nearest integer, halves to the even neighbour
RoundHalfEven(n, d) ==
    LET a == IF n < 0 THEN 0 - n ELSE n
        q == a \div d
        r == a % d
        m == IF 2 * r > d \/ (2 * r = d /\ q % 2 = 1) THEN q + 1 ELSE q
    IN  IF n < 0 THEN 0 - m ELSE m

\* s[is_eur] * EUR_TO_USD with EUR_TO_USD = 1.2 = 12/10, then s.round(2):
\* the result in cents; None (a failed parse) stays NaN
ToCents(x, eur) ==
    IF ~x.ok THEN NaN
    ELSE IF eur THEN Num(RoundHalfEven(x.num * 12 * 100, x.den * 10))
    ELSE Num(RoundHalfEven(x.num * 100, x.den))

MissingWords == {<<"n", "a", "n">>, <<"n", "o", "n", "e">>, <<"n", "u", "l", "l">>}

\* the "cents notation" branches of the loop body: with two or more digit
\* groups raw becomes "<first group>.<second group>", the second group cut to
\* its last two digits unless the string holds a cent sign and exactly two groups
JoinGroups(raw) ==
    LET nums == FindAllDigits(raw, <<>>)
    IN  IF Len(nums) = 2 /\ HasChar(raw, "<cent>")
        THEN nums[1] \o <<".">> \o nums[2]
        ELSE IF Len(nums) = 2 /\ (HasChar(raw, "$") \/ HasChar(raw, "<euro>")) /\ HasChar(raw, "<cent>")
        THEN nums[1] \o <<".">> \o nums[2]
        ELSE IF Len(nums) >= 2
        THEN nums[1] \o <<".">> \o
             (IF Len(nums[2]) <= 2 THEN nums[2]
              ELSE SubSeq(nums[2], Len(nums[2]) - 1, Len(nums[2])))
        ELSE raw

\* the body of "for val in s" for one cell: the parsed number, or None
CleanedNumber(val) ==
    LET raw0 == Strip(val)
        raw1 == JoinGroups(raw0)
        raw2 == RemoveChars(raw1, {"<euro>", "$"})
        raw3 == RemoveWord(RemoveWord(raw2, <<"u", "s", "d">>, 1), <<"e", "u", "r">>, 1)
        raw4 == ReplaceComma(raw3)
        raw5 == KeepChars(raw4, DigitChars \cup {".", "-"})
        raw6 == RStripDots(raw5)
        none == [ok |-> FALSE, num |-> 0, den |-> 1]
    IN  IF raw0 = <<>> \/ Lower(raw0) \in MissingWords THEN none
        ELSE IF raw6 = <<>> \/ raw6 = <<".">> THEN none
        ELSE ParseFloat(raw6)

\* clean_prices on one cell of the series
CleanPrice(val) ==
    LET s == Strip(val)
    IN  ToCents(CleanedNumber(s), IsEur(s))

(***************************************************************************)
(* SpecPrices: clean_prices called on a series of one price string.        *)
(***************************************************************************)
PriceChars == {"1", "2", "5", ".", ",", "-", "$", "<euro>", "<cent>", " "}

\* the price strings of the model: any string over PriceChars, and the
\* shorter ones followed by the currency code
PriceStrings ==
    SeqsUpTo(PriceChars, MaxPriceLen)
      \cup {str \o <<" ", "E", "U", "R">> : str \in SeqsUpTo(PriceChars, MaxPriceLen - 2)}
      \cup {str \o <<"u", "s", "d">> : str \in SeqsUpTo(PriceChars, MaxPriceLen - 2)}

InitPrices ==
    /\ cell \in PriceStrings
    /\ cleaned = NaN
    /\ pc = "clean_prices"
    /\ ClusterIdle
    /\ DatasetIdle
    /\ DailyIdle
    /\ TopIdle
    /\ AuthorsIdle

CleanPrices ==
    /\ pc = "clean_prices"
    /\ cleaned' = CleanPrice(cell)
    /\ pc' = "cleaned"
    /\ UNCHANGED cell
    /\ UNCHANGED notPriceVars

NextPrices == CleanPrices

SpecPrices == InitPrices /\ [][NextPrices]_vars

(***************************************************************************)
(* Property of clean_prices (C8).                                          *)
(***************************************************************************)
\* the value the claim describes: every character that is not a digit, comma,
\* period or minus sign removed, commas turned into periods, the rest parsed
\* as a decimal (NaN when it does not parse), times 1.2 for a string with a
\* Euro sign or the token "eur", rounded to 2 decimals
ClaimedCleanPrice(str) ==
    LET kept == KeepChars(str, DigitChars \cup {",", ".", "-"})
    IN  ToCents(ParseFloat(ReplaceComma(kept)), IsEur(str))

\* C8: for every price string clean_prices returns the stripped-and-parsed
\* value, so the sign and all digit groups of the input are preserved.
C8_StripAndParse ==
    pc = "cleaned" => cleaned = ClaimedCleanPrice(cell)

\* C8 on the strings with at most one group of digits and no period at the
\* end, where the code agrees with the claim
C8_SingleGroup ==
    (/\ pc = "cleaned"
     /\ Len(FindAllDigits(cell, <<>>)) <= 1
     /\ LET kept == KeepChars(cell, DigitChars \cup {",", ".", "-"})
        IN  kept = <<>> \/ kept[Len(kept)] \notin {",", "."})
        => cleaned = ClaimedCleanPrice(cell)

(***************************************************************************)
(* Order normalisation: etl.py, ensure_types, remove_dupes_and_bad_rows,   *)
(* add_paid_price, extract_dates.                                          *)
(***************************************************************************)
\* a column that has not been added to the table yet
Absent == [isna |-> TRUE, val |-> -1]

AbsentDate == [isna |-> TRUE, year |-> -1, month |-> -1, day |-> -1, secs |-> -1]

\* NaT, and parsed timestamps
NaT == [isna |-> TRUE, year |-> 0, month |-> 0, day |-> 0, secs |-> 0]
Stamp(y, m, d, s) == [isna |-> FALSE, year |-> y, month |-> m, day |-> d, secs |-> s]

\* pd.to_numeric(errors="coerce") on a cell holding a string: a string of
\* digits becomes its number, anything else NaN
ToNumeric(str) ==
    IF str # <<>> /\ \A k \in 1..Len(str) : str[k] \in DigitChars
    THEN Num(DigitsValue(str))
    ELSE NaN

\* parse_timestamp on one cell: clean_text, then dateutil's parser (fuzzy),
\* then the ISO fallback, then NaT.  The texts of the model and what the
\* parsers make of them:
ParseTimestamp(text) ==
    CASE text = "09:19:51 P.M., 12-Dec-2024"      -> Stamp(2024, 12, 12, 76791)
      [] text = "12-December-2024, 09:19:51 p.m." -> Stamp(2024, 12, 12, 76791)
      [] text = "2024-12-13 08:44:59"             -> Stamp(2024, 12, 13, 31499)
      [] OTHER                                    -> NaT

\* ensure_types: quantity, unit_price and timestamp coerced, row by row
EnsureTypes(rows) ==
    [k \in 1..Len(rows) |->
        [rows[k] EXCEPT !.quantity = ToNumeric(@),
                        !.unit_price = CleanPrice(@),
                        !.timestamp = ParseTimestamp(@)]]

RECURSIVE DropDuplicateRows(_)
\* df.drop_duplicates(): of equal rows the first is kept
DropDuplicateRows(rows) ==
    IF rows = <<>> THEN <<>>
    ELSE LET init == DropDuplicateRows(SubSeq(rows, 1, Len(rows) - 1))
             last == rows[Len(rows)]
         IN  IF \E k \in 1..Len(init) : init[k] = last THEN init ELSE Append(init, last)

NotNa(r) == ~r.isna

RemoveDupesOnly(rows) == DropDuplicateRows(rows)

\* remove_dupes_and_bad_rows: duplicates, then rows without timestamp, then
\* rows without quantity or unit_price
RemoveDupesAndBadRows(rows) ==
    LET d == DropDuplicateRows(rows)
        t == SelectSeq(d, LAMBDA r : NotNa(r.timestamp))
        q == SelectSeq(t, LAMBDA r : NotNa(r.quantity))
    IN  SelectSeq(q, LAMBDA r : NotNa(r.unit_price))

\* quantity * unit_price on float64 cells: NaN when either is NaN
Times(a, b) == IF a.isna \/ b.isna THEN NaN ELSE Num(a.val * b.val)

\* add_paid_price: paid_price = (quantity * unit_price).round(2), in cents
AddPaidPrice(rows) ==
    [k \in 1..Len(rows) |->
        [rows[k] EXCEPT !.paid_price = Times(rows[k].quantity, rows[k].unit_price)]]

\* extract_dates: date = timestamp.dt.floor("D") (year, month, day follow it)
ExtractDates(rows) ==
    [k \in 1..Len(rows) |->
        [rows[k] EXCEPT !.date = IF rows[k].timestamp.isna THEN NaT
                                 ELSE [rows[k].timestamp EXCEPT !.secs = 0]]]

(***************************************************************************)
(* Record merger: pipeline.py, process_dataset.                            *)
(***************************************************************************)
RECURSIVE DropDuplicatesById(_)
\* df.drop_duplicates(subset=[id]): of rows with the same id the first is kept
DropDuplicatesById(rows) ==
    IF rows = <<>> THEN <<>>
    ELSE LET init == DropDuplicatesById(SubSeq(rows, 1, Len(rows) - 1))
             last == rows[Len(rows)]
         IN  IF \E k \in 1..Len(init) : init[k].id = last.id THEN init
             ELSE Append(init, last)

KeepDuplicates(rows) == rows

\* df_users.drop_duplicates(subset=["id_user"])
DedupUsers(rows) == DropDuplicatesById(rows)

\* df_books.drop_duplicates(subset=["id_book"])
DedupBooks(rows) == DropDuplicatesById(rows)

NoUser == [name |-> Null, email |-> Null, phone |-> Null, address |-> Null]
NoBook == [author |-> Null]

UserCols(u) == [name |-> u.name, email |-> u.email, phone |-> u.phone,
                address |-> u.address]
BookCols(b) == [author |-> b.author]

RECURSIVE LeftJoin(_, _, _)
\* left.merge(right, left_on=key, right_on="id", how="left"): for every left
\* row, in order, one row per right row with the same key (hit), or one row
\* without a right row, whose right columns are null
LeftJoin(left, right, key) ==
    IF left = <<>> THEN <<>>
    ELSE LET l == Head(left)
             hits == SelectSeq(right, LAMBDA r : r.id = l[key])
             out == IF hits = <<>> THEN <<[l |-> l, hit |-> FALSE, r |-> l]>>
                    ELSE [k \in 1..Len(hits) |-> [l |-> l, hit |-> TRUE, r |-> hits[k]]]
         IN  out \o LeftJoin(Tail(left), right, key)

\* the two joins of process_dataset: a merged row is the order row with its
\* user columns and its book columns.  The "price" column of the books is
\* dropped again after the joins.
MergeAll(orders, users, books) ==
    LET ou == LeftJoin(orders, users, "user_id")
        flat == [k \in 1..Len(ou) |->
                    [order |-> ou[k].l,
                     user |-> IF ou[k].hit THEN UserCols(ou[k].r) ELSE NoUser,
                     book_id |-> ou[k].l.book_id]]
        ob == LeftJoin(flat, books, "book_id")
    IN  [k \in 1..Len(ob) |->
            [order |-> ob[k].l.order, user |-> ob[k].l.user,
             book |-> IF ob[k].hit THEN BookCols(ob[k].r) ELSE NoBook]]

\* fillna(""): a missing identity cell becomes the empty string
FillNa(x) == IF x = Null THEN "" ELSE x

ProfileOf(m) == <<FillNa(m.user.name), FillNa(m.user.email), FillNa(m.user.phone),
                  FillNa(m.user.address)>>

RECURSIVE FindRealUser(_, _)
\* find_real_user as a function: the loop run over all profiles
FindRealUser(profiles, cls) ==
    IF profiles = <<>> THEN Len(cls)
    ELSE FindRealUser(Tail(profiles), FindRealUserStep(cls, Head(profiles)))

RECURSIVE BestBuyerClusters(_, _)
BestBuyerClusters(rows, cls) ==
    IF rows = <<>> THEN cls
    ELSE BestBuyerClusters(Tail(rows),
            BestBuyerStep(cls, Head(rows).order.user_id, ProfileOf(Head(rows)),
                          Head(rows).order.paid_price.val))

\* best_buyer as a function, on a table with at least one row
BestBuyer(rows) ==
    LET cls == BestBuyerClusters(rows, <<>>)
    IN  SortedList(cls[MaxBySpend(cls, 1, 1)].user_ids)

\* analyze(df_orders_full): the fields of the bundle the model follows
Analyze(rows) ==
    [unique_users |-> FindRealUser([k \in 1..Len(rows) |-> ProfileOf(rows[k])], <<>>),
     best_buyer_aliases |-> BestBuyer(rows), empty |-> FALSE]

\* the empty bundle, results = {}
EmptyResults == [unique_users |-> 0, best_buyer_aliases |-> <<>>, empty |-> TRUE]

\* pd.DataFrame(): a table without rows and without columns
EmptyFrame == <<>>

IsEmpty(table) == Len(table) = 0

LoadedOrderRow(r) ==
    [user_id |-> r.user_id, book_id |-> r.book_id, quantity |-> r.quantity,
     unit_price |-> r.unit_price, timestamp |-> r.timestamp,
     paid_price |-> Absent, date |-> AbsentDate]

\* "if os.path.exists(orders_file)": read_parquet (the cells as read, the
\* derived columns not there yet), or an empty table and on to the books
ReadOrders ==
    /\ pc = "orders"
    /\ IF ~orders_file.exists
       THEN /\ df_orders' = EmptyFrame
            /\ pc' = "books"
       ELSE /\ df_orders' = [k \in 1..Len(orders_file.rows) |->
                                LoadedOrderRow(orders_file.rows[k])]
            /\ pc' = "ensure_types"
    /\ UNCHANGED <<df_books, df_users, df_orders_full, results>>
    /\ UNCHANGED <<fileVars, notDatasetVars>>

CallEnsureTypes ==
    /\ pc = "ensure_types"
    /\ df_orders' = EnsureTypes(df_orders)
    /\ pc' = "remove_dupes_and_bad_rows"
    /\ UNCHANGED <<df_books, df_users, df_orders_full, results>>
    /\ UNCHANGED <<fileVars, notDatasetVars>>

CallRemoveDupesAndBadRows ==
    /\ pc = "remove_dupes_and_bad_rows"
    /\ df_orders' = RemoveDupesAndBadRows(df_orders)
    /\ pc' = "add_paid_price"
    /\ UNCHANGED <<df_books, df_users, df_orders_full, results>>
    /\ UNCHANGED <<fileVars, notDatasetVars>>

CallAddPaidPrice ==
    /\ pc = "add_paid_price"
    /\ df_orders' = AddPaidPrice(df_orders)
    /\ pc' = "extract_dates"
    /\ UNCHANGED <<df_books, df_users, df_orders_full, results>>
    /\ UNCHANGED <<fileVars, notDatasetVars>>

\* extract_dates.  parse_timestamp is series.apply(try_parse), and apply on a
\* column without rows returns the column as it is, its cells still typed as
\* the strings of the file: on an orders file without rows the .dt accessor
\* of extract_dates raises AttributeError ("Can only use .dt accessor with
\* datetimelike values").  With rows, apply builds a datetime column, which
\* stays one when the filter drops every row.
CallExtractDates ==
    /\ pc = "extract_dates"
    /\ IF Len(orders_file.rows) = 0
       THEN /\ df_orders' = df_orders
            /\ pc' = "raised"
       ELSE /\ df_orders' = ExtractDates(df_orders)
            /\ pc' = "books"
    /\ UNCHANGED <<df_books, df_users, df_orders_full, results>>
    /\ UNCHANGED <<fileVars, notDatasetVars>>

\* load_books_yaml, clean_column_names, rename, drop_duplicates.  A missing
\* file and a file without records both give pd.DataFrame(), a table without
\* columns.  clean_column_names reads df.columns.str: on the columns of a
\* table without columns, which pandas 2 makes a RangeIndex and pandas 1 an
\* empty Index of objects, the .str accessor raises AttributeError ("Can only
\* use .str accessor with string values") in the former and works in the
\* latter.  Both outcomes are kept.
ProcessBooks ==
    /\ pc = "books"
    /\ LET loaded == IF ~books_file.exists THEN EmptyFrame ELSE books_file.rows
       IN  \/ /\ df_books' = DedupBooks(loaded)
              /\ pc' = "users"
           \/ /\ IsEmpty(loaded)
              /\ df_books' = df_books
              /\ pc' = "raised"
    /\ UNCHANGED <<df_orders, df_users, df_orders_full, results>>
    /\ UNCHANGED <<fileVars, notDatasetVars>>

\* load_users_csv, rename, drop_duplicates
ProcessUsers ==
    /\ pc = "users"
    /\ df_users' = DedupUsers(IF ~users_file.exists THEN EmptyFrame ELSE users_file.rows)
    /\ pc' = "merge"
    /\ UNCHANGED <<df_orders, df_books, df_orders_full, results>>
    /\ UNCHANGED <<fileVars, notDatasetVars>>

\* "if not df_orders.empty and not df_users.empty and not df_books.empty":
\* the two left joins and analyze(), else results = {}; then the return
MergeData ==
    /\ pc = "merge"
    /\ IF ~IsEmpty(df_orders) /\ ~IsEmpty(df_users) /\ ~IsEmpty(df_books)
       THEN /\ df_orders_full' = MergeAll(df_orders, df_users, df_books)
            /\ results' = Analyze(df_orders_full')
       ELSE /\ df_orders_full' = EmptyFrame
            /\ results' = EmptyResults
    /\ pc' = "returned"
    /\ UNCHANGED <<df_orders, df_books, df_users>>
    /\ UNCHANGED <<fileVars, notDatasetVars>>

NextDataset ==
    \/ ReadOrders
    \/ CallEnsureTypes
    \/ CallRemoveDupesAndBadRows
    \/ CallAddPaidPrice
    \/ CallExtractDates
    \/ ProcessBooks
    \/ ProcessUsers
    \/ MergeData

\* the cells of the files
QuantityCells  == {<<"2">>, <<"1", "0">>, <<"x">>}
PriceCells     == {<<"5">>, <<"<euro>", "1", "0">>, <<"$">>}
TimestampCells == {"09:19:51 P.M., 12-Dec-2024", "12-December-2024, 09:19:51 p.m.",
                   "soon"}

UserRow(i, n) == [id |-> i, name |-> n, email |-> "e1", phone |-> "p1",
                  address |-> "a1"]
BookRow(i, a) == [id |-> i, author |-> a, price |-> 999]

InitDatasetState ==
    /\ pc = "orders"
    /\ df_orders = <<>>
    /\ df_books = <<>>
    /\ df_users = <<>>
    /\ df_orders_full = <<>>
    /\ results = Null
    /\ ClusterIdle
    /\ PricesIdle
    /\ TopIdle
    /\ AuthorsIdle
    /\ DailyIdle

(***************************************************************************)
(* SpecOrders: process_dataset over order files whose cells vary; the      *)
(* users and books files are missing, empty or hold one record.            *)
(***************************************************************************)
CellRows ==
    [user_id : {1}, book_id : {1}, quantity : QuantityCells,
     unit_price : PriceCells, timestamp : TimestampCells]

InitOrders ==
    /\ orders_file \in {Missing} \cup {File(t) : t \in SeqsUpTo(CellRows, MaxOrders)}
    /\ users_file \in {Missing, File(<<>>), File(<<UserRow(1, "A")>>)}
    /\ books_file \in {Missing, File(<<>>), File(<<BookRow(1, "X")>>)}
    /\ InitDatasetState

SpecOrders == InitOrders /\ [][NextDataset]_vars

(***************************************************************************)
(* SpecMerge: process_dataset over users and books files with repeated     *)
(* and unmatched ids; the order cells are all well-formed.                 *)
(***************************************************************************)
KeyRows ==
    [user_id : {1, 2}, book_id : {1, 2}, quantity : {<<"2">>},
     unit_price : {<<"5">>}, timestamp : {"09:19:51 P.M., 12-Dec-2024"}]

UserRows == {UserRow(1, "A"), UserRow(1, "B"), UserRow(3, "A")}
BookRows == {BookRow(1, "X"), BookRow(1, "Y"), BookRow(3, "X")}

InitMerge ==
    /\ orders_file \in {File(t) : t \in SeqsUpTo(KeyRows, MaxOrders)}
    /\ users_file \in {Missing} \cup {File(t) : t \in SeqsUpTo(UserRows, MaxUsers)}
    /\ books_file \in {Missing} \cup {File(t) : t \in SeqsUpTo(BookRows, MaxBooks)}
    /\ InitDatasetState

SpecMerge == InitMerge /\ [][NextDataset]_vars

(***************************************************************************)
(* Properties of process_dataset (C3, C4, C5).                             *)
(***************************************************************************)
AfterFilter ==
    /\ orders_file.exists
    /\ pc \in {"add_paid_price", "extract_dates", "books", "users", "merge",
               "returned", "raised"}

AfterNormalisation ==
    /\ orders_file.exists
    /\ pc \in {"books", "users", "merge", "returned", "raised"}

SomeTableEmpty ==
    \/ ~orders_file.exists
    \/ RemoveDupesAndBadRows(EnsureTypes(
           [k \in 1..Len(orders_file.rows) |-> LoadedOrderRow(orders_file.rows[k])])) = <<>>
    \/ ~users_file.exists
    \/ users_file.rows = <<>>
    \/ ~books_file.exists
    \/ books_file.rows = <<>>

\* C4: with an empty orders, users or books table process_dataset returns
\* normally, with an empty merged table and an empty analysis result.
C4_EmptyTableShortCircuits ==
    (pc \in {"returned", "raised"} /\ SomeTableEmpty) =>
        /\ pc = "returned"
        /\ df_orders_full = <<>>
        /\ results = EmptyResults

\* C4 for the runs whose books table has a record and whose orders file, if
\* there is one, has a row: there the code agrees
C4_WithBooks ==
    (/\ pc \in {"returned", "raised"}
     /\ SomeTableEmpty
     /\ books_file.rows # <<>>
     /\ orders_file.exists => orders_file.rows # <<>>) =>
        /\ pc = "returned"
        /\ df_orders_full = <<>>
        /\ results = EmptyResults

\* the columns the first record of the file with this id gives, else nulls
FirstWithId(rows, i, Cols(_), none) ==
    LET hits == {k \in 1..Len(rows) : rows[k].id = i}
    IN  IF hits = {} THEN none ELSE Cols(rows[MinOf(hits)])

\* C5: when the merge runs, the merged table has exactly one row per
\* normalised order row, in order: the order row itself, with the columns of
\* the first user (book) of that id, or nulls when no user (book) has the id.
C5_OneRowPerOrder ==
    (pc = "returned" /\ ~IsEmpty(df_orders) /\ ~IsEmpty(df_users) /\ ~IsEmpty(df_books)) =>
        /\ Len(df_orders_full) = Len(df_orders)
        /\ \A k \in 1..Len(df_orders) :
              /\ df_orders_full[k].order = df_orders[k]
              /\ df_orders_full[k].user =
                    FirstWithId(users_file.rows, df_orders[k].user_id, UserCols, NoUser)
              /\ df_orders_full[k].book =
                    FirstWithId(books_file.rows, df_orders[k].book_id, BookCols, NoBook)

\* a merge over a users file that repeats an id with another name, with one
\* order of that user and one order of a user the file does not hold
C5_Witness ==
    /\ pc = "returned"
    /\ Len(df_orders_full) = 2
    /\ Len(users_file.rows) = 2
    /\ users_file.rows[1].id = users_file.rows[2].id
    /\ users_file.rows[1].name # users_file.rows[2].name
    /\ df_orders_full[1].user.name = users_file.rows[1].name
    /\ df_orders_full[2].user = NoUser
    /\ df_orders_full[2].book # NoBook

(***************************************************************************)
(* Top-5 days: analysis.py, get_top5_days.                                 *)
(***************************************************************************)
RECURSIVE Perms(_)
\* all orders in which the members of S can be listed
Perms(S) ==
    IF S = {} THEN {<<>>}
    ELSE UNION {{<<x>> \o q : q \in Perms(S \ {x})} : x \in S}

\* df_daily.sort_values("revenue", ascending=False): the orders the sort may
\* return.  kind is left at its default, "quicksort", which numpy does not
\* promise to be stable: its introsort is unstable on partitions of more than
\* 16 rows and its vectorised float64 argsort is unstable at any size, so
\* where rows of equal revenue land depends on the build and the table.  The
\* outcomes are all the descending orders of the rows.
SortedByRevenueDesc(table) ==
    {ord \in Perms(1..Len(table)) :
        \A a, b \in 1..Len(table) :
            a < b => table[ord[a]].revenue >= table[ord[b]].revenue}

DigitChar(d) ==
    CASE d = 0 -> "0" [] d = 1 -> "1" [] d = 2 -> "2" [] d = 3 -> "3" [] d = 4 -> "4"
      [] d = 5 -> "5" [] d = 6 -> "6" [] d = 7 -> "7" [] d = 8 -> "8" [] d = 9 -> "9"

RECURSIVE GroupedDigits(_)
\* the digits of a natural number, a comma between groups of three
GroupedDigits(n) ==
    IF n < 10 THEN <<DigitChar(n)>>
    ELSE IF n < 100 THEN <<DigitChar(n \div 10), DigitChar(n % 10)>>
    ELSE IF n < 1000
         THEN <<DigitChar(n \div 100), DigitChar((n \div 10) % 10), DigitChar(n % 10)>>
    ELSE GroupedDigits(n \div 1000) \o <<",">> \o
         <<DigitChar((n \div 100) % 10), DigitChar((n \div 10) % 10), DigitChar(n % 10)>>

\* f"{x:,.2f}" on an amount of cents
FormatRevenue(cents) ==
    GroupedDigits(cents \div 100) \o <<".">> \o
    <<DigitChar((cents \div 10) % 10), DigitChar(cents % 10)>>

\* pd.to_datetime(...).dt.date: the calendar date of a timestamp
ToDate(t) == <<t.year, t.month, t.day>>

\* head(5), the formatted revenue, the rank column and reset_index, on the
\* rows in the order ord
Top5Table(table, ord) ==
    LET n == IF Len(table) < 5 THEN Len(table) ELSE 5
    IN  [k \in 1..n |->
            [rank |-> k, date |-> ToDate(table[ord[k]].date),
             revenue |-> FormatRevenue(table[ord[k]].revenue)]]

(***************************************************************************)
(* SpecTop5: get_top5_days called on a daily revenue table, one row per    *)
(* date in ascending date order as compute_daily_revenue returns it.       *)
(***************************************************************************)
Revenues == {500, 3000, 123456}

InitTop5 ==
    /\ df_daily \in UNION {{[k \in 1..n |-> [date |-> Stamp(2024, 1, k, 0),
                                             revenue |-> rev[k]]] :
                               rev \in [1..n -> Revenues]} : n \in 0..MaxDays}
    /\ top5 = <<>>
    /\ pc = "get_top5_days"
    /\ ClusterIdle
    /\ PricesIdle
    /\ DatasetIdle
    /\ DailyIdle
    /\ AuthorsIdle

GetTop5Days ==
    /\ pc = "get_top5_days"
    /\ \E ord \in SortedByRevenueDesc(df_daily) : top5' = Top5Table(df_daily, ord)
    /\ pc' = "ranked"
    /\ UNCHANGED df_daily
    /\ UNCHANGED notTopVars

NextTop5 == GetTop5Days

SpecTop5 == InitTop5 /\ [][NextTop5]_vars

\* the place of row i of the table in the stable descending order
StablePlace(table, i) ==
    1 + Cardinality({j \in 1..Len(table) : table[j].revenue > table[i].revenue})
      + Cardinality({j \in 1..(i - 1) : table[j].revenue = table[i].revenue})

\* C6: get_top5_days returns the min(5, days) days of highest revenue in
\* descending order with ranks 1..k, days of equal revenue in the order in
\* which they appear in the daily revenue table.
C6_StableTop5 ==
    pc = "ranked" =>
        /\ Len(top5) = (IF Len(df_daily) < 5 THEN Len(df_daily) ELSE 5)
        /\ \A k \in 1..Len(top5) :
              /\ top5[k].rank = k
              /\ \E i \in 1..Len(df_daily) :
                    /\ StablePlace(df_daily, i) = k
                    /\ top5[k].date = ToDate(df_daily[i].date)
                    /\ top5[k].revenue = FormatRevenue(df_daily[i].revenue)

\* C6 without the order among equal revenues, which the code does decide:
\* the number of rows, the ranks, distinct days of the table in descending
\* revenue order, no left-out day with more revenue than a listed one
C6_UpToTies ==
    pc = "ranked" =>
        /\ Len(top5) = (IF Len(df_daily) < 5 THEN Len(df_daily) ELSE 5)
        /\ \E pick \in [1..Len(top5) -> 1..Len(df_daily)] :
              /\ \A a, b \in 1..Len(top5) : a # b => pick[a] # pick[b]
              /\ \A k \in 1..Len(top5) :
                    /\ top5[k].rank = k
                    /\ top5[k].date = ToDate(df_daily[pick[k]].date)
                    /\ top5[k].revenue = FormatRevenue(df_daily[pick[k]].revenue)
              /\ \A a, b \in 1..Len(top5) :
                    a < b => df_daily[pick[a]].revenue >= df_daily[pick[b]].revenue
              /\ \A j \in 1..Len(df_daily) :
                    (\A k \in 1..Len(top5) : pick[k] # j) =>
                        \A k \in 1..Len(top5) :
                            df_daily[pick[k]].revenue >= df_daily[j].revenue

(***************************************************************************)
(* Author sets: analysis.py, normalize_author, count_unique_author_sets.   *)
(***************************************************************************)
\* a cell of the author column: a string, or something that is no string
\* (NaN for an order without a matching book)
Str(text) == [isstr |-> TRUE, text |-> text]
NonString == [isstr |-> FALSE, text |-> <<>>]

ReplaceCommaBySemicolon(str) ==
    [k \in 1..Len(str) |-> IF str[k] = "," THEN ";" ELSE str[k]]

RECURSIVE Split(_, _, _)
\* str.split(sep): the pieces between the separators; cur is the piece being read
Split(str, sep, cur) ==
    IF str = <<>> THEN <<cur>>
    ELSE IF Head(str) = sep THEN <<cur>> \o Split(Tail(str), sep, <<>>)
    ELSE Split(Tail(str), sep, Append(cur, Head(str)))

NormalizeAuthorNoStrip(c) ==
    IF ~c.isstr THEN {}
    ELSE LET parts == Split(ReplaceCommaBySemicolon(c.text), ";", <<>>)
         IN  {parts[k] : k \in {j \in 1..Len(parts) : Strip(parts[j]) # <<>>}}

\* normalize_author: the frozenset of the stripped, non-empty pieces
NormalizeAuthor(c) ==
    IF ~c.isstr THEN {}
    ELSE LET parts == Split(ReplaceCommaBySemicolon(c.text), ";", <<>>)
         IN  {Strip(parts[k]) : k \in {j \in 1..Len(parts) : Strip(parts[j]) # <<>>}}

\* Series.nunique(): the number of distinct values
NUnique(col) == Cardinality({col[k] : k \in 1..Len(col)})

(***************************************************************************)
(* SpecAuthors: count_unique_author_sets on a table of two rows.           *)
(***************************************************************************)
AuthorChars == {"a", "b", ",", ";", " "}

AuthorCells == {NonString} \cup {Str(t) : t \in SeqsUpTo(AuthorChars, MaxAuthorLen)}

InitAuthors ==
    /\ author_col \in [1..2 -> AuthorCells]
    /\ sets_ = <<>>
    /\ unique_author_sets = 0
    /\ pc = "count_unique_author_sets"
    /\ ClusterIdle
    /\ PricesIdle
    /\ DatasetIdle
    /\ DailyIdle
    /\ TopIdle

\* sets_ = df["author"].apply(normalize_author)
ApplyNormalizeAuthor ==
    /\ pc = "count_unique_author_sets"
    /\ sets_' = [k \in 1..Len(author_col) |-> NormalizeAuthor(author_col[k])]
    /\ pc' = "nunique"
    /\ UNCHANGED <<author_col, unique_author_sets>>
    /\ UNCHANGED notAuthorVars

\* return sets_.nunique()
ReturnNUnique ==
    /\ pc = "nunique"
    /\ unique_author_sets' = NUnique(sets_)
    /\ pc' = "counted"
    /\ UNCHANGED <<author_col, sets_>>
    /\ UNCHANGED notAuthorVars

NextAuthors ==
    \/ ApplyNormalizeAuthor
    \/ ReturnNUnique

SpecAuthors == InitAuthors /\ [][NextAuthors]_vars

(***************************************************************************)
(* Properties of the author sets (C9, C10).                                *)
(***************************************************************************)
\* C9: the empty author set is not counted: rows whose author is missing, no
\* string or without a non-blank name add nothing to the count.
C9_EmptySetNotCounted ==
    pc = "counted" =>
        unique_author_sets = Cardinality({sets_[k] : k \in 1..Len(sets_)} \ {{}})

IsDelimiter(ch) == ch \in {",", ";"}

\* the names a string lists: the non-empty runs of characters without a
\* delimiter that start and end with a non-blank and reach, over blanks only,
\* a delimiter or the end of the string on either side
ListedNames(c) ==
    IF ~c.isstr THEN {}
    ELSE LET t == c.text
             n == Len(t)
             free(i, j) == \A k \in i..j : ~IsDelimiter(t[k])
             leftOk(i) ==
                 \E d \in 0..(i - 1) :
                     /\ (d = 0 \/ IsDelimiter(t[d]))
                     /\ \A k \in (d + 1)..(i - 1) : t[k] = " "
             rightOk(j) ==
                 \E d \in (j + 1)..(n + 1) :
                     /\ (d = n + 1 \/ IsDelimiter(t[d]))
                     /\ \A k \in (j + 1)..(d - 1) : t[k] = " "
         IN  {SubSeq(t, i, j) : <<i, j>> \in
                {<<i, j>> \in (1..n) \X (1..n) :
                    /\ i <= j
                    /\ t[i] # " "
                    /\ t[j] # " "
                    /\ free(i, j)
                    /\ leftOk(i)
                    /\ rightOk(j)}}

\* C10: normalize_author gives exactly the set of names a string lists,
\* whatever their order, the delimiter, the blanks around them and the empty
\* pieces; two rows listing the same names get the identical set and are
\* counted as one author set.
C10_SameNamesSameSet ==
    /\ pc \in {"nunique", "counted"} =>
          \A k \in 1..Len(author_col) : sets_[k] = ListedNames(author_col[k])
    /\ (pc = "counted" /\ ListedNames(author_col[1]) = ListedNames(author_col[2])) =>
          unique_author_sets = 1

\* "a;b" and "b,a" style rows: other order, other delimiter, counted once
C10_Witness ==
    /\ pc = "counted"
    /\ author_col[1].isstr /\ author_col[2].isstr
    /\ HasChar(author_col[1].text, ";")
    /\ HasChar(author_col[2].text, ",")
    /\ Head(author_col[1].text) # Head(author_col[2].text)
    /\ sets_[1] = {<<"a">>, <<"b">>}
    /\ sets_[2] = {<<"a">>, <<"b">>}
    /\ unique_author_sets = 1

(***************************************************************************)
(* Daily revenue: analysis.py, compute_daily_revenue.                      *)
(*                                                                         *)
(* paid_price is a float64 column and the sum of a group is a sum of       *)
(* binary floating-point numbers, each addition rounded to the significand *)
(* (round to nearest, ties to even).  The model keeps that arithmetic with *)
(* a significand of MantissaBits bits in place of 53: an amount is an      *)
(* integer number of units with at most MantissaBits significant bits.     *)
(***************************************************************************)
RECURSIVE Pow2(_)
Pow2(n) == IF n = 0 THEN 1 ELSE 2 * Pow2(n - 1)

RECURSIVE ExcessBits(_, _)
\* the number of low bits of a > 0 that do not fit the significand
ExcessBits(a, e) == IF a < Pow2(MantissaBits + e) THEN e ELSE ExcessBits(a, e + 1)

\* the floating-point number nearest to the integer n, ties to even
Fl(n) ==
    LET a == IF n < 0 THEN -n ELSE n
        q == Pow2(ExcessBits(a, 0))
        r == a % q
        base == a - r
        up == 2 * r > q \/ (2 * r = q /\ (base \div q) % 2 = 1)
        m == IF up THEN base + q ELSE base
    IN  IF n < 0 THEN -m ELSE m

RECURSIVE KahanSum(_, _, _)
\* the sum of a group as pandas accumulates it (group_sum): the values in
\* row order, with Kahan's compensation term, every operation rounded
KahanSum(vals, sumx, comp) ==
    IF vals = <<>> THEN sumx
    ELSE LET y == Fl(Head(vals) - comp)
             t == Fl(sumx + y)
         IN  KahanSum(Tail(vals), t, Fl(Fl(t - sumx) - y))

GroupSum(vals) == KahanSum(vals, 0, 0)

DateBefore(a, b) ==
    \/ a.year < b.year
    \/ a.year = b.year /\ a.month < b.month
    \/ a.year = b.year /\ a.month = b.month /\ a.day < b.day

RECURSIVE SortedDates(_)
\* groupby(..., sort=True): the group keys in ascending order
SortedDates(S) ==
    IF S = {} THEN <<>>
    ELSE LET first == CHOOSE d \in S : \A o \in S \ {d} : DateBefore(d, o)
         IN  <<first>> \o SortedDates(S \ {first})

\* the paid_price cells of the rows of one date, in row order
PaidOn(rows, d) ==
    LET on == SelectSeq(rows, LAMBDA r : r.date = d)
    IN  [k \in 1..Len(on) |-> on[k].paid_price]

\* df.groupby("date", as_index=False)["paid_price"].sum().rename(...)
ComputeDailyRevenue(rows) ==
    LET keys == SortedDates({rows[k].date : k \in 1..Len(rows)})
    IN  [i \in 1..Len(keys) |->
            [date |-> keys[i], revenue |-> GroupSum(PaidOn(rows, keys[i]))]]

\* the rows given in another order
Reordered(rows, ord) == [k \in 1..Len(rows) |-> rows[ord[k]]]

(***************************************************************************)
(* SpecDaily: compute_daily_revenue on a merged table, each row with a     *)
(* date and a paid_price, and again on the same rows in another order.     *)
(***************************************************************************)
Dates == {Stamp(2024, 1, 1, 0), Stamp(2024, 1, 2, 0)}

\* amounts that are floating-point numbers of the model
PaidPrices == {1, 3, 12}

RecordRows == [date : Dates, paid_price : PaidPrices]

InitDaily ==
    /\ records \in SeqsUpTo(RecordRows, MaxRecords)
    /\ reordering \in Perms(1..Len(records))
    /\ daily = <<>>
    /\ daily_reordered = <<>>
    /\ pc = "compute_daily_revenue"
    /\ ClusterIdle
    /\ PricesIdle
    /\ DatasetIdle
    /\ TopIdle
    /\ AuthorsIdle

CallComputeDailyRevenue ==
    /\ pc = "compute_daily_revenue"
    /\ daily' = ComputeDailyRevenue(records)
    /\ pc' = "reorder"
    /\ UNCHANGED <<records, reordering, daily_reordered>>
    /\ UNCHANGED notDailyVars

CallOnReordered ==
    /\ pc = "reorder"
    /\ daily_reordered' = ComputeDailyRevenue(Reordered(records, reordering))
    /\ pc' = "compared"
    /\ UNCHANGED <<records, reordering, daily>>
    /\ UNCHANGED notDailyVars

NextDaily ==
    \/ CallComputeDailyRevenue
    \/ CallOnReordered

SpecDaily == InitDaily /\ [][NextDaily]_vars

(***************************************************************************)
(* Properties of the daily revenue (C11).                                  *)
(***************************************************************************)
RecordDates == {records[k].date : k \in 1..Len(records)}

RECURSIVE ExactSum(_)
\* the sum of the values as numbers, nothing rounded
ExactSum(vals) == IF vals = <<>> THEN 0 ELSE Head(vals) + ExactSum(Tail(vals))

\* one row per distinct date of the records, in ascending date order
OneRowPerDate(table) ==
    /\ {table[i].date : i \in 1..Len(table)} = RecordDates
    /\ Len(table) = Cardinality(RecordDates)
    /\ \A i, j \in 1..Len(table) : i < j => DateBefore(table[i].date, table[j].date)

\* C11: compute_daily_revenue yields one row per distinct date of the
\* records, in ascending date order, and the table it returns, dates and
\* revenues alike, is the same for every permutation of the rows.
C11_SameForEveryPermutation ==
    pc = "compared" =>
        /\ OneRowPerDate(daily)
        /\ OneRowPerDate(daily_reordered)
        /\ daily_reordered = daily

\* C11 without the equality of the revenues, which does hold: one row per
\* date in ascending order for either order of the rows; and where the exact
\* sum of every date fits the significand, the revenue is that sum and the
\* two tables are equal
C11_UpToRounding ==
    pc = "compared" =>
        /\ OneRowPerDate(daily)
        /\ OneRowPerDate(daily_reordered)
        /\ \A i \in 1..Len(daily) : daily_reordered[i].date = daily[i].date
        /\ (\A d \in RecordDates : ExactSum(PaidOn(records, d)) < Pow2(MantissaBits)) =>
              /\ daily_reordered = daily
              /\ \A i \in 1..Len(daily) :
                    daily[i].revenue = ExactSum(PaidOn(records, daily[i].date))

====
